---- MODULE Spec2Model ----
(***************************************************************************)
(* pyjsonexceller: the schema-driven transformers of transform.py and the  *)
(* prefix-notation expression evaluator execute_expr they call.            *)
(*                                                                         *)
(* A Python value is a record [tag |-> its type, val |-> its payload].  A  *)
(* str is the sequence of its characters, so that startswith, slicing and  *)
(* split are computed and not assumed; a dict is the sequence of its items *)
(* in insertion order.  A raised exception is the value tagged "err": it   *)
(* carries the exception class, the message template and the value that is *)
(* formatted into the template.                                            *)
(***************************************************************************)
EXTENDS Integers, Sequences, FiniteSets, TLC

VARIABLES
    schema,     \* the arguments of the constructor
    context,
    plugins,
    pc,         \* "new" before construction, then "ready", or "raised" when construction failed
    _schema,    \* the fields of the Transformer
    _ctx,
    _plugins,
    _mapping,
    ret,        \* what the last __call__ returned or raised
    ncalls      \* the number of __call__s made on the instance

vars == <<schema, context, plugins, pc, _schema, _ctx, _plugins, _mapping, ret, ncalls>>

\* ------------------------------------------------------------------------
\* Python values
\* ------------------------------------------------------------------------
NoneV == [tag |-> "none", val |-> 0]
VBool(b) == [tag |-> "bool", val |-> b]
VInt(i) == [tag |-> "int", val |-> i]
VStr(s) == [tag |-> "str", val |-> s]
VList(s) == [tag |-> "list", val |-> s]
VTuple(s) == [tag |-> "tuple", val |-> s]
\* a dict is the sequence of its <<key, value>> items in insertion order
VDict(s) == [tag |-> "dict", val |-> s]
\* a function, a module and a class are named by their __name__
VFn(n) == [tag |-> "fn", val |-> n]
VMod(n) == [tag |-> "mod", val |-> n]
VCls(n) == [tag |-> "cls", val |-> n]
\* a method bound to its receiver
VBound(n, self) == [tag |-> "bound", val |-> [name |-> n, self |-> self]]
\* the result of a library function the evaluator does not interpret
VOpaque(f, args) == [tag |-> "opaque", val |-> [fn |-> f, args |-> args]]

Err(cls, fmt, arg) == [tag |-> "err", val |-> [cls |-> cls, fmt |-> fmt, arg |-> arg]]
IsErr(x) == x.tag = "err"
ErrCls(x) == x.val.cls

\* ------------------------------------------------------------------------
\* dict operations (a dict keeps insertion order)
\* ------------------------------------------------------------------------
EmptyDict == VDict(<<>>)
DictKeys(d) == {d.val[i][1] : i \in 1..Len(d.val)}
\* d[k] for k in d
DictGet(d, k) == d.val[CHOOSE i \in 1..Len(d.val) : d.val[i][1] = k][2]
\* d.get(k)
Get(d, k) == IF k \in DictKeys(d) THEN DictGet(d, k) ELSE NoneV
\* d[k] = x: a key already present keeps its position
DictSet(d, k, x) ==
    IF k \in DictKeys(d)
    THEN VDict([i \in 1..Len(d.val) |-> IF d.val[i][1] = k THEN <<k, x>> ELSE d.val[i]])
    ELSE VDict(Append(d.val, <<k, x>>))

RECURSIVE DictUpdate(_, _, _)
DictUpdate(a, b, i) == IF i > Len(b.val) THEN a ELSE DictUpdate(DictSet(a, b.val[i][1], b.val[i][2]), b, i + 1)
\* {**a, **b}
Merge(a, b) == DictUpdate(a, b, 1)

\* bool(x)
Truthy(x) ==
    CASE x.tag = "none" -> FALSE
      [] x.tag = "bool" -> x.val
      [] x.tag = "int" -> x.val # 0
      [] x.tag \in {"str", "list", "tuple", "dict"} -> Len(x.val) > 0
      [] OTHER -> TRUE

TypeName(x) ==
    CASE x.tag = "none" -> <<"N","o","n","e","T","y","p","e">>
      [] x.tag = "bool" -> <<"b","o","o","l">>
      [] x.tag = "int" -> <<"i","n","t">>
      [] x.tag = "str" -> <<"s","t","r">>
      [] x.tag = "list" -> <<"l","i","s","t">>
      [] x.tag = "tuple" -> <<"t","u","p","l","e">>
      [] x.tag = "dict" -> <<"d","i","c","t">>
      [] OTHER -> <<"o","b","j","e","c","t">>

\* ------------------------------------------------------------------------
\* str methods
\* ------------------------------------------------------------------------
StartsWith(s, p) == Len(s) >= Len(p) /\ SubSeq(s, 1, Len(p)) = p
\* s[n:]
Drop(s, n) == SubSeq(s, n + 1, Len(s))
\* c in s
Contains(s, c) == \E i \in 1..Len(s) : s[i] = c
IndexOf(s, c) == CHOOSE i \in 1..Len(s) : s[i] = c /\ \A j \in 1..(i - 1) : s[j] # c

RECURSIVE Split(_, _)
\* s.split(c)
Split(s, c) ==
    IF ~Contains(s, c) THEN <<s>>
    ELSE LET i == IndexOf(s, c)
         IN <<SubSeq(s, 1, i - 1)>> \o Split(Drop(s, i), c)

Digit(d) == CASE d = 0 -> "0" [] d = 1 -> "1" [] d = 2 -> "2" [] d = 3 -> "3"
              [] d = 4 -> "4" [] d = 5 -> "5" [] d = 6 -> "6" [] d = 7 -> "7"
              [] d = 8 -> "8" [] d = 9 -> "9"

RECURSIVE IntToStr(_)
\* str(i) for i >= 0
IntToStr(i) == IF i < 10 THEN <<Digit(i)>> ELSE IntToStr(i \div 10) \o <<Digit(i % 10)>>

\* ------------------------------------------------------------------------
\* names the source spells out
\* ------------------------------------------------------------------------
REF0 == <<"$","0",".">>
REF1 == <<"$","1",".">>
s_if == <<"i","f">>
s_loop_index == <<"l","o","o","p","_","i","n","d","e","x">>
s_loop_item == <<"l","o","o","p","_","i","t","e","m">>
s_startswith == <<"s","t","a","r","t","s","w","i","t","h">>
s_name == <<"_","_","n","a","m","e","_","_">>

s_lt == <<"l","t">>
s_not == <<"n","o","t","_">>
s_concat == <<"c","o","n","c","a","t">>
s_getitem == <<"g","e","t","i","t","e","m">>
s_getattr == <<"g","e","t","a","t","t","r">>
s_str == <<"s","t","r">>
s_len == <<"l","e","n">>
s_dlt == <<"_","_","l","t","_","_">>
s_datetime == <<"d","a","t","e","t","i","m","e">>
s_strptime == <<"s","t","r","p","t","i","m","e">>
s_json == <<"j","s","o","n">>
s_dumps == <<"d","u","m","p","s">>

\* the names of the operator module and of builtins that schemas here use
OperatorNames == {s_lt, s_not, s_concat, s_getitem}
BuiltinNames == {s_getattr, s_str, s_len}
\* the modules import_module can find
Modules == {s_datetime, s_json}

AttributeErrorOf(x, name) == Err("AttributeError", "'{}' object has no attribute '{}'", VList(<<VStr(TypeName(x)), VStr(name)>>))

\* getattr(x, name)
GetAttr(x, name) ==
    CASE x.tag \in {"fn", "mod", "cls"} /\ name = s_name -> VStr(x.val)
      [] x.tag = "mod" /\ x.val = s_datetime /\ name = s_datetime -> VCls(s_datetime)
      [] x.tag = "mod" /\ x.val = s_json /\ name = s_dumps -> VFn(s_dumps)
      [] x.tag = "cls" /\ x.val = s_datetime /\ name = s_strptime -> VFn(s_strptime)
      [] x.tag = "int" /\ name = s_dlt -> VBound(s_dlt, x)
      [] x.tag = "str" /\ name = s_startswith -> VBound(s_startswith, x)
      [] OTHER -> AttributeErrorOf(x, name)

\* import_module(module_path)
import_module(module_path) ==
    IF module_path \in Modules THEN VMod(module_path)
    ELSE Err("ModuleNotFoundError", "No module named '{}'", VStr(module_path))

NotCallable(args) == Err("TypeError", "bad operand or arity", VList(args))

\* f(*args) for the callables above
Apply(f, args) ==
    CASE f.tag = "fn" /\ f.val = s_lt ->
           IF Len(args) = 2 /\ args[1].tag = "int" /\ args[2].tag = "int"
           THEN VBool(args[1].val < args[2].val) ELSE NotCallable(args)
      [] f.tag = "fn" /\ f.val = s_not ->
           IF Len(args) = 1 THEN VBool(~Truthy(args[1])) ELSE NotCallable(args)
      [] f.tag = "fn" /\ f.val = s_concat ->
           IF Len(args) = 2 /\ args[1].tag = args[2].tag /\ args[1].tag \in {"str", "list", "tuple"}
           THEN [tag |-> args[1].tag, val |-> args[1].val \o args[2].val] ELSE NotCallable(args)
      [] f.tag = "fn" /\ f.val = s_getitem ->
           IF Len(args) = 2 /\ args[1].tag = "dict" /\ args[2].tag = "str"
           THEN IF args[2].val \in DictKeys(args[1]) THEN DictGet(args[1], args[2].val)
                ELSE Err("KeyError", "{}", args[2])
           ELSE IF Len(args) = 2 /\ args[1].tag \in {"list", "tuple"} /\ args[2].tag = "int"
           THEN IF args[2].val >= 0 /\ args[2].val < Len(args[1].val) THEN args[1].val[args[2].val + 1]
                ELSE Err("IndexError", "index out of range", args[2])
           ELSE NotCallable(args)
      [] f.tag = "fn" /\ f.val = s_getattr ->
           IF Len(args) = 2 /\ args[2].tag = "str" THEN GetAttr(args[1], args[2].val)
           ELSE NotCallable(args)
      [] f.tag = "fn" /\ f.val = s_str ->
           IF Len(args) = 1 /\ args[1].tag = "int" /\ args[1].val >= 0 THEN VStr(IntToStr(args[1].val))
           ELSE IF Len(args) = 1 /\ args[1].tag = "str" THEN args[1]
           ELSE IF Len(args) = 1 THEN VOpaque(s_str, args)
           ELSE NotCallable(args)
      [] f.tag = "fn" /\ f.val = s_len ->
           IF Len(args) = 1 /\ args[1].tag \in {"str", "list", "tuple", "dict"}
           THEN VInt(Len(args[1].val)) ELSE NotCallable(args)
      [] f.tag = "bound" /\ f.val.name = s_dlt ->
           IF Len(args) = 1 /\ args[1].tag = "int" THEN VBool(f.val.self.val < args[1].val)
           ELSE NotCallable(args)
      [] f.tag = "bound" /\ f.val.name = s_startswith ->
           IF Len(args) = 1 /\ args[1].tag = "str" THEN VBool(StartsWith(f.val.self.val, args[1].val))
           ELSE NotCallable(args)
      [] f.tag = "cls" ->
           IF Len(args) >= 3 /\ \A i \in 1..Len(args) : args[i].tag = "int"
           THEN VOpaque(f.val, args) ELSE NotCallable(args)
      [] f.tag = "fn" -> VOpaque(f.val, args)
      [] OTHER -> Err("TypeError", "'{}' object is not callable", VStr(TypeName(f)))


\* ------------------------------------------------------------------------
\* execute_expr
\* ------------------------------------------------------------------------
KeyErrorOf(k) == Err("KeyError", "{}", VStr(k))
UnpackError(parts) == Err("ValueError", "need exactly 2 values to unpack", VInt(Len(parts)))

\* if not context: context = {}
OrEmpty(d) == IF Truthy(d) THEN d ELSE EmptyDict

\* context[arg[3:]]
ctx_lookup(arg, ctx) ==
    IF Drop(arg, 3) \in DictKeys(ctx) THEN DictGet(ctx, Drop(arg, 3)) ELSE KeyErrorOf(Drop(arg, 3))

\* a "$1." token in argument position: name or name:attr
plugin_arg(arg, reg) ==
    LET plugin_path == Drop(arg, 3)
        parts == Split(plugin_path, ":")
        plugin_name == IF Contains(plugin_path, ":") THEN parts[1] ELSE plugin_path
    IN IF Contains(plugin_path, ":") /\ Len(parts) # 2 THEN UnpackError(parts)
       ELSE IF plugin_name \notin DictKeys(reg) THEN KeyErrorOf(plugin_name)
       ELSE IF Contains(plugin_path, ":") /\ Len(parts[2]) > 0
            THEN GetAttr(DictGet(reg, plugin_name), parts[2])
       ELSE DictGet(reg, plugin_name)

\* a "$1." token as the lone element: always name:attr
plugin_single(arg, reg) ==
    LET plugin_path == Drop(arg, 3)
        parts == Split(plugin_path, ":")
    IN IF Len(parts) # 2 THEN UnpackError(parts)
       ELSE IF parts[1] \notin DictKeys(reg) THEN KeyErrorOf(parts[1])
       ELSE GetAttr(DictGet(reg, parts[1]), parts[2])

\* a "$1." token in operator position: a missing name or attribute is
\* raised as FunctionNotFoundError
plugin_func(func, reg) ==
    LET plugin_path == Drop(func, 3)
        parts == Split(plugin_path, ":")
        plugin_name == IF Contains(plugin_path, ":") THEN parts[1] ELSE plugin_path
        notfound == Err("FunctionNotFoundError", "Function {} not found", VStr(plugin_path))
    IN IF Contains(plugin_path, ":") /\ Len(parts) # 2 THEN UnpackError(parts)
       ELSE IF plugin_name \notin DictKeys(reg) THEN notfound
       ELSE IF Contains(plugin_path, ":") /\ Len(parts[2]) > 0
            THEN IF IsErr(GetAttr(DictGet(reg, plugin_name), parts[2])) THEN notfound
                 ELSE GetAttr(DictGet(reg, plugin_name), parts[2])
       ELSE DictGet(reg, plugin_name)

\* getattr(operator, func), then getattr(builtins, func)
named_func(func) ==
    IF func \in OperatorNames \cup BuiltinNames THEN VFn(func)
    ELSE Err("FunctionNotFoundError", "Function {} is not supported", VStr(func))

\* eval_args[1] if eval_args[0] else eval_args[2]
if_select(args) ==
    IF Len(args) < 2 \/ (~Truthy(args[1]) /\ Len(args) < 3)
    THEN Err("IndexError", "list index out of range", NoneV)
    ELSE IF Truthy(args[1]) THEN args[2] ELSE args[3]

RECURSIVE execute_expr(_, _, _)
RECURSIVE eval_args(_, _, _, _, _)
RECURSIVE eval_args_next(_, _, _, _, _, _)

\* one element of expr[1:]
eval_arg(arg, ctx, reg) ==
    IF arg.tag = "list" THEN execute_expr(arg.val, ctx, reg)
    ELSE IF arg.tag = "str" THEN
        IF StartsWith(arg.val, REF0) THEN ctx_lookup(arg.val, ctx)
        ELSE IF StartsWith(arg.val, REF1) THEN plugin_arg(arg.val, reg)
        ELSE arg
    ELSE arg

RECURSIVE eval_args_lazy(_, _, _, _, _)
\* eval_args, were "if" to evaluate only the branch its condition selects
eval_args_lazy(expr, i, ctx, reg, acc) ==
    IF i > Len(expr) THEN VList(acc)
    ELSE IF expr[1] = VStr(s_if) /\ i \in {3, 4} /\ ((i = 3) # Truthy(acc[1]))
    THEN eval_args_lazy(expr, i + 1, ctx, reg, Append(acc, NoneV))
    ELSE IF IsErr(eval_arg(expr[i], ctx, reg)) THEN eval_arg(expr[i], ctx, reg)
    ELSE eval_args_lazy(expr, i + 1, ctx, reg, Append(acc, eval_arg(expr[i], ctx, reg)))

\* the loop over expr[1:] from element i on: the list of the evaluated
\* arguments, or the first exception raised
eval_args(expr, i, ctx, reg, acc) ==
    IF i > Len(expr) THEN VList(acc)
    ELSE eval_args_next(expr, i, ctx, reg, acc, eval_arg(expr[i], ctx, reg))

\* eval_args.append(ret), unless evaluating the element raised
eval_args_next(expr, i, ctx, reg, acc, r) ==
    IF IsErr(r) THEN r ELSE eval_args(expr, i + 1, ctx, reg, Append(acc, r))

\* the context a nested operator expression is evaluated in
func_context(ctx) == NoneV

\* _func(*eval_args), unless obtaining _func raised
invoke(_func, args) == IF IsErr(_func) THEN _func ELSE Apply(_func, args)

\* the method named by a ".name" operator, looked up on the first argument
method_func(expr, args) ==
    IF IsErr(GetAttr(args[1], Drop(expr[1].val, 1)))
    THEN Err("FunctionNotFoundError", "Method {} not found in {}",
             VList(<<VStr(Drop(expr[1].val, 1)), expr[2]>>))
    ELSE GetAttr(args[1], Drop(expr[1].val, 1))

\* the callable expr[0] stands for
func_of(expr, args, ctx, reg) ==
    IF expr[1].tag = "list" THEN execute_expr(expr[1].val, func_context(ctx), reg)
    ELSE IF expr[1].tag # "str" THEN AttributeErrorOf(expr[1], s_startswith)
    ELSE IF StartsWith(expr[1].val, <<".">>) THEN method_func(expr, args)
    ELSE IF StartsWith(expr[1].val, REF1) THEN plugin_func(expr[1].val, reg)
    ELSE named_func(expr[1].val)

\* the arguments _func is applied to: a method is not passed its receiver
call_args(expr, args) ==
    IF expr[1].tag = "str" /\ StartsWith(expr[1].val, <<".">>) THEN Tail(args) ELSE args

\* the dispatch on expr[0] once expr[1:] is evaluated
dispatch(expr, args, ctx, reg) ==
    IF IsErr(args) THEN args
    ELSE IF expr[1] = VStr(s_if) THEN if_select(args.val)
    ELSE invoke(func_of(expr, args.val, ctx, reg), call_args(expr, args.val))

\* a single-element expression is a reference
single(expr, ctx, reg) ==
    IF expr[1].tag # "str" THEN AttributeErrorOf(expr[1], s_startswith)
    ELSE IF StartsWith(expr[1].val, REF0) THEN ctx_lookup(expr[1].val, ctx)
    ELSE IF StartsWith(expr[1].val, REF1) THEN plugin_single(expr[1].val, reg)
    ELSE Err("TypeError", "Invalid {}", VList(expr))

execute_expr(expr, context0, plugins0) ==
    IF Len(expr) = 0 THEN Err("TypeError", "Expr can't be empty", NoneV)
    ELSE IF Len(expr) = 1 THEN single(expr, OrEmpty(context0), OrEmpty(plugins0))
    ELSE dispatch(expr, eval_args(expr, 2, OrEmpty(context0), OrEmpty(plugins0), <<>>),
                  OrEmpty(context0), OrEmpty(plugins0))

\* ------------------------------------------------------------------------
\* Transformer.__init__ and _load_plugins
\* ------------------------------------------------------------------------
s_type == <<"t","y","p","e">>
s_mapping == <<"m","a","p","p","i","n","g">>
s_ctx == <<"c","t","x">>
s_plugins == <<"p","l","u","g","i","n","s">>
s_computed == <<"c","o","m","p","u","t","e","d">>
s_iter == <<"i","t","e","r">>
s_each == <<"e","a","c","h">>

s_literal == <<"l","i","t","e","r","a","l">>
s_expr == <<"e","x","p","r">>
s_tuple == <<"t","u","p","l","e">>
s_list == <<"l","i","s","t">>
s_object == <<"o","b","j","e","c","t">>

\* the values of MappingType
MappingType == {s_literal, s_expr, s_tuple, s_list, s_object}

\* the local variable plugin of _load_plugins before its first assignment
Unbound == [tag |-> "unbound", val |-> 0]
LoopState(reg, plugin) == [tag |-> "loop", val |-> [reg |-> reg, plugin |-> plugin]]

\* "module" or "module:attr": import_module, then getattr when attr is non-empty
load_path(path) ==
    LET parts == Split(path, ":")
        module_path == IF Contains(path, ":") THEN parts[1] ELSE path
        plugin == import_module(module_path)
    IN IF Contains(path, ":") /\ Len(parts) # 2 THEN UnpackError(parts)
       ELSE IF IsErr(plugin) THEN plugin
       ELSE IF Contains(path, ":") /\ Len(parts[2]) > 0 THEN GetAttr(plugin, parts[2])
       ELSE plugin

\* schema_plugins[plugin.__name__] = plugin
bind_by_name(reg, plugin) ==
    IF IsErr(plugin) THEN plugin
    ELSE IF IsErr(GetAttr(plugin, s_name)) THEN GetAttr(plugin, s_name)
    ELSE LoopState(DictSet(reg, GetAttr(plugin, s_name).val, plugin), plugin)

\* schema_plugins[plugin_name] = plugin, where plugin may never have been
\* assigned
bind_explicit(reg, plugin_name, plugin) ==
    IF IsErr(plugin) THEN plugin
    ELSE IF plugin = Unbound
    THEN Err("UnboundLocalError", "local variable '{}' referenced before assignment",
             VStr(<<"p","l","u","g","i","n">>))
    ELSE LoopState(DictSet(reg, plugin_name, plugin), plugin)

\* what a descriptor makes of the local plugin: a string is imported, a list
\* is evaluated against the registry so far, and any other value leaves
\* plugin as the previous iteration left it
produce(source, reg, plugin) ==
    IF source.tag = "list" THEN execute_expr(source.val, NoneV, reg)
    ELSE IF source.tag = "str" THEN load_path(source.val)
    ELSE plugin

\* one iteration of the loop over schema["plugins"]: a descriptor that is
\* neither a str, a list nor a dict is passed over
load_one(plugin_def, reg, plugin) ==
    IF plugin_def.tag \in {"str", "list"} THEN bind_by_name(reg, produce(plugin_def, reg, plugin))
    ELSE IF plugin_def.tag = "dict" THEN
        IF Len(plugin_def.val) = 0 THEN Err("IndexError", "tuple index out of range", NoneV)
        ELSE bind_explicit(reg, plugin_def.val[1][1], produce(plugin_def.val[1][2], reg, plugin))
    ELSE LoopState(reg, plugin)

RECURSIVE load_loop(_, _, _, _)
RECURSIVE load_next(_, _, _)
\* the loop over schema["plugins"] from descriptor i on
load_loop(defs, i, reg, plugin) ==
    IF i > Len(defs) THEN reg
    ELSE load_next(defs, i, load_one(defs[i], reg, plugin))

load_next(defs, i, step) ==
    IF IsErr(step) THEN step ELSE load_loop(defs, i + 1, step.val.reg, step.val.plugin)

\* the registry starts as a copy of the caller's plugins; the descriptors of
\* the schema are then bound into it one after the other
_load_plugins(sch, additional_plugins) ==
    load_loop(IF s_plugins \in DictKeys(sch) THEN DictGet(sch, s_plugins).val ELSE <<>>,
              1, Merge(EmptyDict, OrEmpty(additional_plugins)), Unbound)

\* self._ctx = {**schema.get("ctx", {}), **(context or {})}
init_ctx(sch, ctx) ==
    Merge(IF s_ctx \in DictKeys(sch) THEN DictGet(sch, s_ctx) ELSE EmptyDict, OrEmpty(ctx))

\* the instance __init__ leaves, or the exception _load_plugins raised
new_transformer(sch, ctx, loaded) ==
    IF IsErr(loaded) THEN loaded
    ELSE [tag |-> "transformer",
          val |-> [_schema |-> sch, _ctx |-> ctx, _plugins |-> loaded,
                 _mapping |-> DictGet(sch, s_mapping)]]

\* Transformer.__init__
Transformer(sch, ctx, reg) ==
    new_transformer(sch, init_ctx(sch, ctx), _load_plugins(sch, OrEmpty(reg)))

\* combinations[MappingType(schema["type"])](schema, context, plugins)
transformer_factory(sch, ctx, reg) ==
    IF DictGet(sch, s_type).val \notin MappingType
    THEN Err("ValueError", "{} is not a valid MappingType", DictGet(sch, s_type))
    ELSE Transformer(sch, ctx, reg)

\* ------------------------------------------------------------------------
\* __call__ of the five transformers
\* ------------------------------------------------------------------------
\* not st.get("if") or execute_expr(st.get("if"), ctx, plugins)
guard(st, ctx, reg) ==
    IF ~Truthy(Get(st, s_if)) THEN VBool(TRUE)
    ELSE execute_expr(Get(st, s_if).val, ctx, reg)

\* the values enumerate(iterable) yields, or the TypeError of iter()
iterate(x) ==
    CASE x.tag \in {"list", "tuple"} -> VList(x.val)
      [] x.tag = "str" -> VList([i \in 1..Len(x.val) |-> VStr(<<x.val[i]>>)])
      [] x.tag = "dict" -> VList([i \in 1..Len(x.val) |-> VStr(x.val[i][1])])
      [] OTHER -> Err("TypeError", "'{}' object is not iterable", VStr(TypeName(x)))

\* the test made on the evaluated iter before the loop
iter_rejected(iterable) == ~Truthy(iterable)

\* enumerate_index, were the index to count the elements appended so far
enumerate_index_appended(i, n) == n

\* the index enumerate() gives to the element at position i (from 1) of the
\* source, of which n have been appended to the output so far
enumerate_index(i, n) == i - 1

\* {**self._ctx, "loop_index": loop_index, "loop_item": loop_item}
additional_ctx(ctx, loop_index, loop_item) ==
    DictSet(DictSet(ctx, s_loop_index, VInt(loop_index)), s_loop_item, loop_item)

RECURSIVE resolve(_, _, _)
RECURSIVE call(_, _, _, _)
RECURSIVE tuple_loop(_, _, _, _, _)
RECURSIVE tuple_guarded(_, _, _, _, _, _)
RECURSIVE tuple_append(_, _, _, _, _, _)
RECURSIVE object_loop(_, _, _, _, _)
RECURSIVE object_guarded(_, _, _, _, _, _)
RECURSIVE object_append(_, _, _, _, _, _)
RECURSIVE list_loop(_, _, _, _, _, _)
RECURSIVE list_guarded(_, _, _, _, _, _, _)
RECURSIVE list_append(_, _, _, _, _, _, _)

\* tr(), unless constructing tr raised
call_transformer(tr) ==
    IF IsErr(tr) THEN tr ELSE call(tr.val._schema, tr.val._mapping, tr.val._ctx, tr.val._plugins)

\* transformer_factory(st, ctx, plugins)()
resolve(st, ctx, reg) == call_transformer(transformer_factory(st, ctx, reg))

RECURSIVE tuple_loop_padded(_, _, _, _, _)
\* tuple_loop, were a guarded-out member to leave None in its place
tuple_loop_padded(members, i, ctx, reg, acc) ==
    IF i > Len(members) THEN VTuple(acc)
    ELSE IF IsErr(guard(members[i], ctx, reg)) THEN guard(members[i], ctx, reg)
    ELSE IF ~Truthy(guard(members[i], ctx, reg))
    THEN tuple_loop_padded(members, i + 1, ctx, reg, Append(acc, NoneV))
    ELSE IF IsErr(resolve(members[i], ctx, reg)) THEN resolve(members[i], ctx, reg)
    ELSE tuple_loop_padded(members, i + 1, ctx, reg, Append(acc, resolve(members[i], ctx, reg)))

\* TupleTransformer.__call__, from member i on: the guard of the member is
\* evaluated, then the member is resolved if the guard lets it in
tuple_loop(members, i, ctx, reg, acc) ==
    IF i > Len(members) THEN VTuple(acc)
    ELSE tuple_guarded(members, i, ctx, reg, acc, guard(members[i], ctx, reg))

tuple_guarded(members, i, ctx, reg, acc, g) ==
    IF IsErr(g) THEN g
    ELSE IF ~Truthy(g) THEN tuple_loop(members, i + 1, ctx, reg, acc)
    ELSE tuple_append(members, i, ctx, reg, acc, resolve(members[i], ctx, reg))

tuple_append(members, i, ctx, reg, acc, val) ==
    IF IsErr(val) THEN val ELSE tuple_loop(members, i + 1, ctx, reg, Append(acc, val))

\* ObjectTransformer.__call__, from item i on
object_loop(items, i, ctx, reg, acc) ==
    IF i > Len(items) THEN acc
    ELSE object_guarded(items, i, ctx, reg, acc, guard(items[i][2], ctx, reg))

object_guarded(items, i, ctx, reg, acc, g) ==
    IF IsErr(g) THEN g
    ELSE IF ~Truthy(g) THEN object_loop(items, i + 1, ctx, reg, acc)
    ELSE object_append(items, i, ctx, reg, acc, resolve(items[i][2], ctx, reg))

object_append(items, i, ctx, reg, acc, val) ==
    IF IsErr(val) THEN val ELSE object_loop(items, i + 1, ctx, reg, DictSet(acc, items[i][1], val))

\* the loop of ListTransformer.__call__, from element i on
list_loop(items, i, each, ctx, reg, acc) ==
    IF i > Len(items) THEN VList(acc)
    ELSE list_guarded(items, i, each, ctx, reg, acc,
                      guard(each, additional_ctx(ctx, enumerate_index(i, Len(acc)), items[i]), reg))

list_guarded(items, i, each, ctx, reg, acc, g) ==
    IF IsErr(g) THEN g
    ELSE IF ~Truthy(g) THEN list_loop(items, i + 1, each, ctx, reg, acc)
    ELSE list_append(items, i, each, ctx, reg, acc,
                     resolve(each, additional_ctx(ctx, enumerate_index(i, Len(acc)), items[i]), reg))

list_append(items, i, each, ctx, reg, acc, val) ==
    IF IsErr(val) THEN val ELSE list_loop(items, i + 1, each, ctx, reg, Append(acc, val))

\* ListTransformer.__call__ once iter is evaluated
list_iterate(mapping, ctx, reg, iterable) ==
    IF IsErr(iterable) THEN iterable
    ELSE IF iter_rejected(iterable)
    THEN Err("TypeError", "invalid iter definition, {} is not iterable", DictGet(mapping, s_iter))
    ELSE IF IsErr(iterate(iterable)) THEN iterate(iterable)
    ELSE list_loop(iterate(iterable).val, 1, DictGet(mapping, s_each), ctx, reg, <<>>)

\* ListTransformer.__call__
list_call(mapping, ctx, reg) ==
    list_iterate(mapping, ctx, reg, execute_expr(DictGet(mapping, s_iter).val, ctx, reg))

\* the __call__ of the class transformer_factory selects for the type
call(sch, mapping, ctx, reg) ==
    CASE DictGet(sch, s_type).val = s_literal -> mapping
      [] DictGet(sch, s_type).val = s_expr -> execute_expr(mapping.val, ctx, reg)
      [] DictGet(sch, s_type).val = s_tuple -> tuple_loop(mapping.val, 1, ctx, reg, <<>>)
      [] DictGet(sch, s_type).val = s_list -> list_call(mapping, ctx, reg)
      [] DictGet(sch, s_type).val = s_object -> object_loop(mapping.val, 1, ctx, reg, EmptyDict)

\* ------------------------------------------------------------------------
\* the schemas, contexts and plugins the transformers are built from
\* ------------------------------------------------------------------------
MaxMembers == 2     \* members of a tuple or object mapping
MaxItems == 3       \* elements of the sequence a list node iterates
MaxDescriptors == 2 \* entries of schema["plugins"]
MaxCalls == 2       \* __call__s made on one instance

BoundedSeqs(S, n) == UNION {[1..k -> S] : k \in 0..n}

s_flag == <<"f","l","a","g">>
s_rec == <<"r","e","c">>
s_x == <<"x">>
s_f == <<"f">>
s_p == <<"p">>
s_foo == <<"f","o","o">>
s_nope == <<"n","o","p","e">>
s_missing == <<"m","i","s","s","i","n","g">>
s_hello == <<"h","e","l","l","o">>
s_left == <<"l","e","f","t">>
s_right == <<"r","i","g","h","t">>
s_id == <<"i","d">>
s_val == <<"v","a","l">>
s_bar == <<"b","a","r">>
s_custom == <<"c","u","s","t","o","m">>

\* a schema node {"type": type, "mapping": mapping}
Node(type, mapping) == VDict(<<<<s_type, VStr(type)>>, <<s_mapping, mapping>>>>)
\* the node with "if": g, unless g is None
WithIf(node, g) == IF g = NoneV THEN node ELSE DictSet(node, s_if, g)
Ctx0(name) == VStr(REF0 \o name)
Reg1(name) == VStr(REF1 \o name)
Input(sch, ctx, reg) == [schema |-> sch, context |-> ctx, plugins |-> reg]

\* guards of a member: none, true or false by the context, the empty
\* expression, and one that raises
Guards == {NoneV, VList(<<Ctx0(s_flag)>>), VList(<<VStr(s_not), Ctx0(s_flag)>>),
           VList(<<>>), VList(<<Ctx0(s_missing)>>)}

\* member i of a tuple or object: a literal that tells the members apart, or
\* an expression over the context
MemberChoices == {[g |-> g, kind |-> s_literal] : g \in Guards} \cup {[g |-> NoneV, kind |-> s_expr]}
Member(i, c) ==
    WithIf(IF c.kind = s_literal THEN Node(s_literal, VInt(i))
           ELSE Node(s_expr, VList(<<Ctx0(s_flag)>>)), c.g)
MemberKey(i) == <<"k", Digit(i)>>

TupleSchemas == {Node(s_tuple, VList([i \in DOMAIN cs |-> Member(i, cs[i])])) :
                    cs \in BoundedSeqs(MemberChoices, MaxMembers)}
ObjectSchemas == {Node(s_object, VDict([i \in DOMAIN cs |-> <<MemberKey(i), Member(i, cs[i])>>])) :
                    cs \in BoundedSeqs(MemberChoices, MaxMembers)}
FlagContexts == {VDict(<<<<s_flag, VBool(b)>>>>) : b \in BOOLEAN}
MemberInputs == {Input(sch, ctx, NoneV) : sch \in TupleSchemas \cup ObjectSchemas, ctx \in FlagContexts}

\* what schema["ctx"]["rec"] holds for a list node
Elements == {VInt(0), VInt(1)}
IterValues == {VList(s) : s \in BoundedSeqs(Elements, MaxItems)}
              \cup {VTuple(<<>>), VTuple(<<VInt(1), VInt(0)>>), VStr(<<>>), VStr(<<"a","b">>),
                    EmptyDict, VDict(<<<<s_x, VInt(1)>>>>),
                    NoneV, VInt(0), VInt(1), VInt(2), VBool(FALSE), VBool(TRUE)}
TestEach == Node(s_object, VDict(<<
                <<s_id, Node(s_expr, VList(<<VStr(s_concat), VStr(<<"i","d","_">>),
                                              VList(<<VStr(s_str), Ctx0(s_loop_index)>>)>>))>>,
                <<s_val, Node(s_expr, VList(<<Ctx0(s_loop_item)>>))>> >>))
EachSchemas == {Node(s_expr, VList(<<Ctx0(s_loop_index)>>)),
                WithIf(Node(s_expr, VList(<<Ctx0(s_loop_index)>>)), VList(<<Ctx0(s_loop_item)>>)),
                WithIf(Node(s_expr, VList(<<Ctx0(s_loop_item)>>)),
                       VList(<<VStr(s_lt), Ctx0(s_loop_index), VInt(1)>>)),
                WithIf(Node(s_literal, VStr(s_hello)), VList(<<>>)),
                WithIf(Node(s_literal, VStr(s_hello)), VList(<<Ctx0(s_missing)>>)),
                TestEach}
ListNode(each) == Node(s_list, VDict(<<<<s_iter, VList(<<Ctx0(s_rec)>>)>>, <<s_each, each>>>>))
ListInputs == {Input(DictSet(ListNode(each), s_ctx, VDict(<<<<s_rec, r>>>>)), ctx, NoneV) :
                  each \in EachSchemas, r \in IterValues,
                  ctx \in {NoneV, VDict(<<<<s_loop_index, VInt(7)>>>>)}}

\* entries of schema["plugins"]: the three well-formed shapes and malformed ones
Descriptors == {VStr(s_datetime), VStr(s_datetime \o <<":">> \o s_datetime), VStr(s_foo),
                VList(<<Reg1(s_datetime \o <<":">> \o s_datetime)>>),
                VDict(<<<<s_foo, VStr(s_json)>>>>),
                VDict(<<<<s_datetime, VList(<<VStr(s_getattr), Reg1(s_json), VStr(s_dumps)>>)>>>>),
                VInt(1),
                VDict(<<<<s_foo, VInt(1)>>>>)}
CallerPlugins == {NoneV, VDict(<<<<s_datetime, VFn(s_custom)>>, <<s_json, VMod(s_json)>>>>)}
CallerContexts == {NoneV, VDict(<<<<s_x, VInt(2)>>, <<s_flag, VBool(TRUE)>>>>)}
PluginInputs == {Input(DictSet(DictSet(Node(s_expr, VList(<<Ctx0(s_x)>>)), s_ctx, VDict(<<<<s_x, VInt(1)>>>>)),
                               s_plugins, VList(ds)), ctx, reg) :
                    ds \in BoundedSeqs(Descriptors, MaxDescriptors),
                    ctx \in CallerContexts, reg \in CallerPlugins}

\* expressions
IfArgs == {VInt(0), VInt(1), VStr(s_left), Ctx0(s_x), Ctx0(s_missing), Reg1(s_nope),
           VList(<<VStr(s_not), Ctx0(s_x)>>), VList(<<VStr(s_bar), VInt(1)>>)}
IfExprs == {<<VStr(s_if), c, a, b>> : c \in IfArgs, a \in IfArgs, b \in IfArgs}
PluginTokens == {Reg1(n \o a) : n \in {s_p, s_nope}, a \in {<<>>, <<":">> \o s_datetime, <<":">> \o s_bar}}
PluginExprs == {<<tok, VStr(s_x)>> : tok \in PluginTokens}
                \cup {<<VStr(s_not), tok>> : tok \in PluginTokens}
                \cup {<<tok>> : tok \in PluginTokens}
FuncExprs == {VList(<<Ctx0(s_f)>>), VList(<<Ctx0(s_missing)>>),
              VList(<<VStr(s_getattr), Ctx0(s_x), VStr(s_dlt)>>),
              VList(<<VStr(s_getattr), Reg1(s_p), VStr(s_datetime)>>),
              VList(<<Reg1(s_p \o <<":">> \o s_datetime)>>)}
NestedExprs == {<<fe, a>> : fe \in FuncExprs, a \in {VInt(1), Ctx0(s_x), Ctx0(s_missing)}}
TestExprs == {<<VStr(s_lt), VInt(10), VInt(11)>>, <<VStr(<<".">> \o s_dlt), VInt(10), VInt(11)>>,
              <<VStr(s_concat), VStr(<<"1","0">>), VStr(<<"1","1">>)>>,
              <<>>, <<Ctx0(s_foo)>>, <<VStr(<<".">> \o s_bar), VInt(1)>>, <<VStr(s_bar), VInt(1)>>,
              <<VStr(s_getitem), VList(<<VStr(s_getitem), Ctx0(s_rec), VStr(s_foo)>>), VStr(s_foo)>>}
Exprs == IfExprs \cup PluginExprs \cup NestedExprs \cup TestExprs
ExprContexts == {VDict(<<<<s_x, VInt(i)>>, <<s_f, VFn(s_not)>>,
                         <<s_rec, VDict(<<<<s_foo, VDict(<<<<s_foo, VInt(1)>>>>)>>>>)>>>>) : i \in {0, 1}}
ExprInputs == {Input(DictSet(Node(s_expr, VList(e)), s_ctx, ctx), NoneV, VDict(<<<<s_p, VMod(s_datetime)>>>>)) :
                  e \in Exprs, ctx \in ExprContexts}

\* schemas with a "computed" mapping
ComputedInputs == {Input(DictSet(Node(s_expr, VList(<<Ctx0(n)>>)), s_computed,
                                 VDict(<<<<s_x, Node(s_literal, VInt(1))>>>>)), ctx, NoneV) :
                      n \in {s_x, s_flag}, ctx \in CallerContexts}

\* literal nodes
LiteralInputs == {Input(Node(s_literal, m), ctx, NoneV) :
                     m \in {VStr(s_hello), VInt(1), VBool(TRUE), NoneV,
                            VList(<<VStr(s_hello), VInt(1), VBool(TRUE)>>),
                            VDict(<<<<s_foo, VStr(s_bar)>>>>)},
                     ctx \in CallerContexts}

Inputs == LiteralInputs \cup MemberInputs \cup ListInputs \cup PluginInputs \cup ExprInputs \cup ComputedInputs

\* ------------------------------------------------------------------------
\* the state machine: a transformer is constructed, then called
\* ------------------------------------------------------------------------
Init ==
    /\ \E inp \in Inputs : schema = inp.schema /\ context = inp.context /\ plugins = inp.plugins
    /\ pc = "new"
    /\ _schema = NoneV /\ _ctx = NoneV /\ _plugins = NoneV /\ _mapping = NoneV
    /\ ret = NoneV
    /\ ncalls = 0

\* the instance is kept, or the exception of the constructor is raised
Constructed(tr) ==
    IF IsErr(tr)
    THEN pc' = "raised" /\ ret' = tr /\ UNCHANGED <<_schema, _ctx, _plugins, _mapping>>
    ELSE /\ pc' = "ready"
         /\ _schema' = tr.val._schema /\ _ctx' = tr.val._ctx
         /\ _plugins' = tr.val._plugins /\ _mapping' = tr.val._mapping
         /\ UNCHANGED ret

\* transformer_factory(schema, context, plugins)
Construct ==
    /\ pc = "new"
    /\ Constructed(transformer_factory(schema, context, plugins))
    /\ UNCHANGED <<schema, context, plugins, ncalls>>

Called(type) ==
    /\ pc = "ready"
    /\ ncalls < MaxCalls
    /\ DictGet(_schema, s_type).val = type
    /\ ret' = call(_schema, _mapping, _ctx, _plugins)
    /\ ncalls' = ncalls + 1
    /\ UNCHANGED <<schema, context, plugins, pc, _schema, _ctx, _plugins, _mapping>>

LiteralTransformer == Called(s_literal)
ExprTransformer == Called(s_expr)
TupleTransformer == Called(s_tuple)
ListTransformer == Called(s_list)
ObjectTransformer == Called(s_object)

Next ==
    \/ Construct
    \/ LiteralTransformer
    \/ ExprTransformer
    \/ TupleTransformer
    \/ ListTransformer
    \/ ObjectTransformer

Spec == Init /\ [][Next]_vars

\* ------------------------------------------------------------------------
\* properties
\* ------------------------------------------------------------------------
NodeType == DictGet(_schema, s_type).val
Returned == pc = "ready" /\ ncalls > 0
Indices(n) == [i \in 1..n |-> i]

\* the guard of st is absent, or is a non-empty expression
GuardWellFormed(st) ==
    s_if \notin DictKeys(st) \/ (DictGet(st, s_if).tag = "list" /\ Len(DictGet(st, s_if).val) > 0)
GuardValue(st, ctx) == execute_expr(DictGet(st, s_if).val, ctx, _plugins)
GuardFails(st, ctx) == s_if \in DictKeys(st) /\ IsErr(GuardValue(st, ctx))
Included(st, ctx) == s_if \notin DictKeys(st) \/ Truthy(GuardValue(st, ctx))

\* the member nodes of a tuple or object mapping, in source order
MemberNodes ==
    IF NodeType = s_tuple THEN _mapping.val ELSE [i \in 1..Len(_mapping.val) |-> _mapping.val[i][2]]
KeptMembers == SelectSeq(Indices(Len(MemberNodes)), LAMBDA i : Included(MemberNodes[i], _ctx))
MembersResolve ==
    /\ \A i \in 1..Len(MemberNodes) :
          GuardWellFormed(MemberNodes[i]) /\ ~GuardFails(MemberNodes[i], _ctx)
    /\ \A j \in 1..Len(KeptMembers) : ~IsErr(resolve(MemberNodes[KeptMembers[j]], _ctx, _plugins))

\* C1: an Object or Tuple node whose guards are each absent or a non-empty
\* expression resolves to exactly the members whose guard is absent or truthy
\* in the node's context and registry, in source order, with nothing standing
\* in for a member whose guard is falsy.
C1_GuardedMembers ==
    (Returned /\ NodeType \in {s_tuple, s_object} /\ MembersResolve) =>
        IF NodeType = s_tuple
        THEN ret = VTuple([j \in 1..Len(KeptMembers) |->
                              resolve(MemberNodes[KeptMembers[j]], _ctx, _plugins)])
        ELSE ret = VDict([j \in 1..Len(KeptMembers) |->
                              <<_mapping.val[KeptMembers[j]][1],
                                resolve(MemberNodes[KeptMembers[j]], _ctx, _plugins)>>])

\* a member with a falsy guard is followed by a member that is included
C1_Witness ==
    /\ Returned /\ NodeType \in {s_tuple, s_object} /\ MembersResolve
    /\ \E i, j \in 1..Len(MemberNodes) :
          i < j /\ ~Included(MemberNodes[i], _ctx) /\ Included(MemberNodes[j], _ctx)
    /\ ~IsErr(ret) /\ Len(ret.val) < Len(MemberNodes)

\* the sequence a list node iterates, when iter evaluates to a non-empty one
IterValue == execute_expr(DictGet(_mapping, s_iter).val, _ctx, _plugins)
IterIsSequence == ~IsErr(IterValue) /\ IterValue.tag \in {"list", "tuple", "str"} /\ Len(IterValue.val) > 0
IterItems ==
    IF IterValue.tag = "str" THEN [i \in 1..Len(IterValue.val) |-> VStr(<<IterValue.val[i]>>)]
    ELSE IterValue.val
Each == DictGet(_mapping, s_each)
\* the base context plus loop_index = i - 1 and loop_item = e_(i-1), for the
\* element at position i counted from 1
Derived(i) == DictSet(DictSet(_ctx, s_loop_index, VInt(i - 1)), s_loop_item, IterItems[i])
KeptItems == SelectSeq(Indices(Len(IterItems)), LAMBDA i : Included(Each, Derived(i)))
ItemsResolve ==
    /\ GuardWellFormed(Each)
    /\ \A i \in 1..Len(IterItems) : ~GuardFails(Each, Derived(i))
    /\ \A j \in 1..Len(KeptItems) : ~IsErr(resolve(Each, Derived(KeptItems[j]), _plugins))

\* C2: a List node whose iter is a non-empty sequence resolves, in iteration
\* order, to the resolution of each under the derived context of exactly the
\* elements whose guard is absent or truthy; loop_index is the 0-based source
\* position, also after a guarded-out element.
C2_ListElements ==
    (Returned /\ NodeType = s_list /\ IterIsSequence /\ ItemsResolve) =>
        ret = VList([j \in 1..Len(KeptItems) |-> resolve(Each, Derived(KeptItems[j]), _plugins)])

\* each is ["$0.loop_index"], an element is guarded out and a later one is
\* included, so that the output holds an index larger than its own position
C2_Witness ==
    /\ Returned /\ NodeType = s_list /\ IterIsSequence /\ ItemsResolve
    /\ DictGet(Each, s_mapping) = VList(<<Ctx0(s_loop_index)>>)
    /\ ~IsErr(ret)
    /\ \E j \in 1..Len(ret.val) : ret.val[j].tag = "int" /\ ret.val[j].val > j - 1

\* C8: ["if", c, a, b] evaluates c, a and b from left to right, then returns
\* the value of a when c is truthy and of b otherwise; the first of the three
\* to fail makes the expression fail, selected or not.
C8_EagerIf ==
    (Returned /\ NodeType = s_expr /\ Len(_mapping.val) = 4 /\ _mapping.val[1] = VStr(s_if)) =>
        LET c == eval_arg(_mapping.val[2], _ctx, _plugins)
            a == eval_arg(_mapping.val[3], _ctx, _plugins)
            b == eval_arg(_mapping.val[4], _ctx, _plugins)
        IN ret = IF IsErr(c) THEN c
                 ELSE IF IsErr(a) THEN a
                 ELSE IF IsErr(b) THEN b
                 ELSE IF Truthy(c) THEN a ELSE b

\* the branch that is not selected fails, and the expression fails with it
C8_Witness ==
    /\ Returned /\ NodeType = s_expr /\ Len(_mapping.val) = 4 /\ _mapping.val[1] = VStr(s_if)
    /\ LET c == eval_arg(_mapping.val[2], _ctx, _plugins)
           a == eval_arg(_mapping.val[3], _ctx, _plugins)
           b == eval_arg(_mapping.val[4], _ctx, _plugins)
       IN ~IsErr(c) /\ Truthy(c) /\ ~IsErr(a) /\ IsErr(b) /\ ret = b

\* C3: a List node whose iter evaluates to a value that is not iterable (an
\* integer, a boolean or None, falsy or not) fails with the TypeError
\* "invalid iter definition, <iter expression> is not iterable".
C3_NotIterableMessage ==
    (Returned /\ NodeType = s_list /\ ~IsErr(IterValue) /\ IterValue.tag \in {"none", "bool", "int"}) =>
        ret = Err("TypeError", "invalid iter definition, {} is not iterable", DictGet(_mapping, s_iter))

\* the names the descriptors of the schema bind, whatever the caller supplies
SchemaPluginNames == DictKeys(_load_plugins(schema, NoneV))

\* C4: a name bound both by the caller and by the schema is bound to the
\* caller's value, in the context and in the plugin registry alike.
C4_CallerPrecedence ==
    (pc = "ready" /\ ~IsErr(_load_plugins(schema, NoneV))) =>
        /\ \A n \in DictKeys(OrEmpty(context)) \cap DictKeys(OrEmpty(Get(schema, s_ctx))) :
              DictGet(_ctx, n) = DictGet(context, n)
        /\ \A n \in DictKeys(OrEmpty(plugins)) \cap SchemaPluginNames :
              DictGet(_plugins, n) = DictGet(plugins, n)

\* C5: once __call__ has run on a transformer whose schema has a computed
\* mapping, every computed entry has been resolved and its result is bound in
\* the context under its name.
C5_ComputedBound ==
    (Returned /\ s_computed \in DictKeys(_schema)) =>
        \A n \in DictKeys(DictGet(_schema, s_computed)) :
            /\ n \in DictKeys(_ctx)
            /\ DictGet(_ctx, n) = resolve(DictGet(DictGet(_schema, s_computed), n),
                                          init_ctx(schema, context), _plugins)

\* a descriptor that is neither a string, a list, nor a single-entry mapping
\* whose value is a string or a list
Malformed(d) ==
    ~(\/ d.tag \in {"str", "list"}
      \/ (d.tag = "dict" /\ Len(d.val) = 1 /\ d.val[1][2].tag \in {"str", "list"}))
HasMalformed(sch) ==
    /\ s_plugins \in DictKeys(sch)
    /\ \E i \in 1..Len(DictGet(sch, s_plugins).val) : Malformed(DictGet(sch, s_plugins).val[i])

\* C6: construction fails with PluginDefinitionError whenever an entry of
\* schema["plugins"] is malformed, at any position of the sequence.
C6_MalformedDescriptor ==
    (pc # "new" /\ HasMalformed(schema)) =>
        (pc = "raised" /\ ErrCls(ret) = "PluginDefinitionError")

\* the registry name of a "$1." token
TokenPlugin(tok) == Split(Drop(tok.val, 3), ":")[1]
IsPluginToken(x) == x.tag = "str" /\ StartsWith(x.val, REF1)
IsPlainLiteral(x) == x.tag # "list" /\ ~(x.tag = "str" /\ (StartsWith(x.val, REF0) \/ StartsWith(x.val, REF1)))

\* C7: an expression with a "$1." token whose name the registry does not bind
\* fails with PluginNotFoundError naming the plugin, in operator position, in
\* argument position and as the lone token (the other elements being
\* literals or the name of an operator).
C7_PluginNotFound ==
    (Returned /\ NodeType = s_expr) =>
        \A i \in 1..Len(_mapping.val) :
            ( /\ IsPluginToken(_mapping.val[i])
              /\ TokenPlugin(_mapping.val[i]) \notin DictKeys(_plugins)
              /\ \A j \in 1..Len(_mapping.val) : j # i => IsPlainLiteral(_mapping.val[j]) )
            => ( /\ IsErr(ret) /\ ErrCls(ret) = "PluginNotFoundError"
                 /\ ret.val.arg = VStr(TokenPlugin(_mapping.val[i])) )

\* C9: the not-iterable error is raised only for a target that is not
\* iterable; an iterable with no element resolves to the empty list.
C9_EmptyIterable ==
    (Returned /\ NodeType = s_list /\ ~IsErr(IterValue)
       /\ IterValue.tag \in {"list", "tuple", "str", "dict"} /\ Len(IterValue.val) = 0) =>
        ret = VList(<<>>)

\* C10: a nested expression in operator position is evaluated against the
\* context and registry of the enclosing expression, so that a "$0." reference
\* in it gives what it gives in argument position, and the callable obtained
\* is applied to the evaluated arguments.
C10_NestedOperator ==
    (Returned /\ NodeType = s_expr /\ Len(_mapping.val) > 1 /\ _mapping.val[1].tag = "list") =>
        LET _func == execute_expr(_mapping.val[1].val, _ctx, _plugins)
            args == eval_args(_mapping.val, 2, _ctx, _plugins, <<>>)
        IN (~IsErr(_func) /\ ~IsErr(args)) => ret = Apply(_func, args.val)
====
